---- MODULE Spec2Model ----
(***************************************************************************)
(* A model of cloudflare-stream-exporter (main.go): the background loop    *)
(* that lists the accounts, filters them by include_accounts, queries the  *)
(* streaming analytics of each one and sets the gauge                      *)
(* cloudflare_streaming_minutes_viewed{account=<name>}, next to the HTTP   *)
(* server that renders the gauge registry on every scrape.                 *)
(*                                                                         *)
(* Strings whose characters matter (account identifiers, the               *)
(* include_accounts flag) are sequences of one-character strings.          *)
(* A float64 is the record [num, den] of the exact quotient in lowest      *)
(* terms; den = 0 encodes the IEEE results of a division by zero:          *)
(* 0/0 = NaN, 1/0 = +Inf, -1/0 = -Inf.  Bucket counts are drawn far below  *)
(* 2^63, where int(uint64) is the identity and sum += cannot wrap.         *)
(***************************************************************************)
EXTENDS Integers, Sequences, FiniteSets, TLC

\* ------------------------------------------------------------ bounds
MaxEntries == 2
MaxBuckets == 2

\* ------------------------------------------------------------ inputs
Sep == ","
AccountIDs == {<<"a">>, <<"b">>}
AccountNames == {"X", "Y"}
\* The values of the include_accounts flag: "", "a", "a,b", "ab".
IncludeSettings ==
  { <<>>, <<"a">>, <<"a", Sep, "b">>, <<"a", "b">> }

SeqsUpTo(S, n) == UNION {[1..k -> S] : k \in 0..n}

Account == [ID : AccountIDs, Name : AccountNames]

\* What api.Accounts can return: an ordered listing of accounts, no identifier
\* twice; display names are free text and two accounts may carry the same one.
Listings ==
  { l \in SeqsUpTo(Account, Cardinality(AccountIDs)) :
      \A i, j \in 1..Len(l) : i # j => l[i].ID # l[j].ID }

\* One element of viewer.accounts: the minutesViewed of its buckets, here
\* k buckets counting 10, 20, ..., 10k (none, <<10>>, <<10, 20>>, ...).
BucketSeqs == {[i \in 1..k |-> 10 * i] : k \in 0..MaxBuckets}
\* len(r.Viewer.Accounts): the elements themselves are drawn from BucketSeqs as
\* the range loop of fetchStreamingAnalytics reaches them.
ResponseLens == 0..MaxEntries

\* ------------------------------------------------------------ float64
RECURSIVE GCD(_, _)
GCD(x, y) == IF y = 0 THEN x ELSE GCD(y, x % y)

Abs(x) == IF x < 0 THEN -x ELSE x

NaN == [num |-> 0, den |-> 0]
PosInf == [num |-> 1, den |-> 0]
NegInf == [num |-> -1, den |-> 0]
Zero == [num |-> 0, den |-> 1]

\* float64(s) / float64(n)
FloatDiv(s, n) ==
  IF n = 0
    THEN (IF s = 0 THEN NaN ELSE IF s > 0 THEN PosInf ELSE NegInf)
    ELSE LET g == GCD(Abs(s), n) IN [num |-> s \div g, den |-> n \div g]

\* sum := 0; for _, b := range buckets { sum += int(b.Sum.MinutesViewed) }
RECURSIVE SumFrom(_, _)
SumFrom(acc, buckets) ==
  IF buckets = <<>> THEN acc
  ELSE SumFrom(acc + Head(buckets), Tail(buckets))

SumOf(buckets) == SumFrom(0, buckets)

\* A variant of GaugeValue that does not divide the sum.
GaugeValueUndivided(buckets) == FloatDiv(SumOf(buckets), 1)

\* The value line 128 passes to Set for one element of viewer.accounts.
GaugeValue(buckets) == FloatDiv(SumOf(buckets), Len(buckets))

\* ------------------------------------------------------------ strings
\* strings.Split(s, sep) for a one-character sep: n separators give n+1 fields,
\* so the empty string gives one empty field.
RECURSIVE Split(_, _)
Split(s, sep) ==
  IF \E i \in 1..Len(s) : s[i] = sep
    THEN LET i == CHOOSE k \in 1..Len(s) :
                    s[k] = sep /\ \A j \in 1..(k - 1) : s[j] # sep
         IN <<SubSeq(s, 1, i - 1)>> \o Split(SubSeq(s, i + 1, Len(s)), sep)
    ELSE <<s>>

contains(s, e) == \E i \in 1..Len(s) : s[i] = e


\* ------------------------------------------------------------ state
VARIABLES
  cfIncludeAccounts, \* the include_accounts flag, fixed by flag.Parse
  alive,             \* FALSE once log.Fatal has ended the process
  accountsErr,       \* fetchAccounts: api.Accounts has returned an error
  http,              \* "binding" until ListenAndServe listens, then "serving"
  pc,                \* where the loop goroutine is
  tickFired,         \* the channel of the ticker of the current wait holds a tick
  accounts,          \* fetchMetrics: the listing fetchAccounts returned
  idx,               \* fetchMetrics: position of the range loop in accounts
  nresp,             \* fetchStreamingAnalytics: len(r.Viewer.Accounts)
  ei,                \* fetchStreamingAnalytics: position of the range loop
  entry,             \* fetchStreamingAnalytics: the element a at that position
  gauge,             \* the children of cfStreamingMinutesViewed, by label
  scrapePc,          \* where the handler of the metrics path is
  scrapeTodo,        \* scrape: children collected and not yet written out
  scrapeOut,         \* scrape: the lines written to the response so far
  running,           \* history: calls of fetchMetrics that have not returned
  log,               \* history: how this cycle ended at each position of accounts
  atStart,           \* history: gauge when this cycle called fetchMetrics
  sets               \* history: Set calls of this fetchStreamingAnalytics call

procVars == <<cfIncludeAccounts, alive, accountsErr, http>>
fetchVars == <<nresp, ei, entry>>
loopVars == <<pc, tickFired, accounts, idx, fetchVars>>
scrapeVars == <<scrapePc, scrapeTodo, scrapeOut>>
histVars == <<running, log, atStart, sets>>

vars == <<procVars, loopVars, gauge, scrapeVars, histVars>>

\* A child of the GaugeVec.  written is history: some Set has stored val.
NoEntry == [present |-> FALSE, written |-> FALSE, val |-> Zero]
\* GaugeVec.With on a label seen for the first time creates a gauge at 0.
NewEntry == [present |-> TRUE, written |-> FALSE, val |-> Zero]
\* Gauge.Set(v) stores v in one atomic write.
SetEntry(v) == [present |-> TRUE, written |-> TRUE, val |-> v]

\* An entry of log: how the loop body ended for one position of accounts
\* ("skip", "error" or "ok"), with len(r.Viewer.Accounts), the Set calls made
\* and the buckets of the element the last of them was made for.
Done(outcome, n, k, b) == [outcome |-> outcome, n |-> n, sets |-> k, last |-> b]

\* accountsToHandle := strings.Split(cfIncludeAccounts, ",")
accountsToHandle == Split(cfIncludeAccounts, Sep)

\* A variant of Handled that filters nothing.
HandledUnfiltered(id) == TRUE

\* The filter of the range loop of fetchMetrics: FALSE is its continue.
Handled(id) ==
  Len(accountsToHandle) > 0 => contains(accountsToHandle, id)

Init ==
  /\ cfIncludeAccounts \in IncludeSettings
  /\ alive = TRUE
  /\ accountsErr = FALSE
  /\ http = "binding"
  /\ pc = "boot"
  /\ tickFired = FALSE
  /\ accounts = <<>>
  /\ idx = 1
  /\ nresp = 0
  /\ ei = 1
  /\ entry = <<>>
  /\ gauge = [n \in AccountNames |-> NoEntry]
  /\ scrapePc = "idle"
  /\ scrapeTodo = {}
  /\ scrapeOut = [n \in AccountNames |-> NoEntry]
  /\ running = 0
  /\ log = <<>>
  /\ atStart = [n \in AccountNames |-> NoEntry]
  /\ sets = 0

\* ------------------------------------------------------------ the loop goroutine
\* The call fetchMetrics() of the loop body.
CallFetchMetrics ==
  /\ pc' = "fetchAccounts"
  /\ running' = running + 1
  /\ atStart' = gauge
  /\ UNCHANGED <<accounts, idx, fetchVars, log, sets>>

\* A variant of FirstCycle that waits for a tick, as for range ticker.C does.
FirstCycleAwaitsTick ==
  /\ alive /\ pc = "boot" /\ tickFired
  /\ tickFired' = FALSE
  /\ CallFetchMetrics
  /\ UNCHANGED <<procVars, gauge, scrapeVars>>

\* for ; true; <post> { fetchMetrics() }: no post statement, and so no tick,
\* comes before the first iteration.
FirstCycle ==
  /\ alive /\ pc = "boot"
  /\ CallFetchMetrics
  /\ UNCHANGED <<procVars, tickFired, gauge, scrapeVars>>

\* api.Accounts returns a listing.
FetchAccountsOK ==
  /\ alive /\ pc = "fetchAccounts"
  /\ \E l \in Listings : accounts' = l
  /\ idx' = 1
  /\ pc' = "range"
  /\ UNCHANGED <<procVars, tickFired, fetchVars, gauge, scrapeVars, histVars>>

\* A variant of FetchAccountsError that logs the error and lets fetchMetrics
\* return, so that the loop tries again at the next tick.
FetchAccountsErrorRetried ==
  /\ alive /\ pc = "fetchAccounts"
  /\ accountsErr' = TRUE
  /\ pc' = "idle"
  /\ tickFired' = FALSE
  /\ running' = running - 1
  /\ UNCHANGED <<cfIncludeAccounts, alive, http, accounts, idx, fetchVars,
                 gauge, scrapeVars, log, atStart, sets>>

\* api.Accounts returns an error: log.Fatal(err) exits the process.
FetchAccountsError ==
  /\ alive /\ pc = "fetchAccounts"
  /\ accountsErr' = TRUE
  /\ alive' = FALSE
  /\ UNCHANGED <<cfIncludeAccounts, http, loopVars, gauge, scrapeVars, histVars>>

AtAccount == alive /\ pc = "range" /\ idx <= Len(accounts)

\* The filter rejects accounts[idx]: continue.
SkipAccount ==
  /\ AtAccount
  /\ ~Handled(accounts[idx].ID)
  /\ idx' = idx + 1
  /\ log' = Append(log, Done("skip", 0, 0, <<>>))
  /\ UNCHANGED <<procVars, pc, tickFired, accounts, fetchVars, gauge,
                 scrapeVars, running, atStart, sets>>

\* A variant of FetchError that leaves the range loop of fetchMetrics.
FetchErrorAborts ==
  /\ AtAccount
  /\ Handled(accounts[idx].ID)
  /\ idx' = Len(accounts) + 1
  /\ log' = Append(log, Done("error", 0, 0, <<>>))
  /\ sets' = 0
  /\ UNCHANGED <<procVars, pc, tickFired, accounts, fetchVars, gauge,
                 scrapeVars, running, atStart>>

\* A variant of FetchError that deletes the gauge entry of the account.
FetchErrorClears ==
  /\ AtAccount
  /\ Handled(accounts[idx].ID)
  /\ idx' = idx + 1
  /\ log' = Append(log, Done("error", 0, 0, <<>>))
  /\ sets' = 0
  /\ gauge' = [gauge EXCEPT ![accounts[idx].Name] = NoEntry]
  /\ UNCHANGED <<procVars, pc, tickFired, accounts, fetchVars, scrapeVars,
                 running, atStart>>

\* fetchStreamingTotals returns an error: fetchStreamingAnalytics logs it and
\* returns, and the range loop of fetchMetrics goes on.
FetchError ==
  /\ AtAccount
  /\ Handled(accounts[idx].ID)
  /\ idx' = idx + 1
  /\ log' = Append(log, Done("error", 0, 0, <<>>))
  /\ sets' = 0
  /\ UNCHANGED <<procVars, pc, tickFired, accounts, fetchVars, gauge,
                 scrapeVars, running, atStart>>

\* fetchStreamingTotals returns a response; with no element in viewer.accounts
\* the range loop of fetchStreamingAnalytics has no iteration.
FetchOK ==
  /\ AtAccount
  /\ Handled(accounts[idx].ID)
  /\ sets' = 0
  /\ \E n \in ResponseLens :
       IF n = 0
         THEN /\ idx' = idx + 1
              /\ log' = Append(log, Done("ok", 0, 0, <<>>))
              /\ UNCHANGED <<pc, fetchVars>>
         ELSE /\ nresp' = n
              /\ ei' = 1
              /\ \E b \in BucketSeqs : entry' = b
              /\ pc' = "with"
              /\ UNCHANGED <<idx, log>>
  /\ UNCHANGED <<procVars, tickFired, accounts, gauge, scrapeVars, running,
                 atStart>>

\* cfStreamingMinutesViewed.With(prometheus.Labels{"account": account.Name})
GaugeWith ==
  /\ alive /\ pc = "with"
  /\ LET name == accounts[idx].Name IN
       gauge' = IF gauge[name].present THEN gauge
                ELSE [gauge EXCEPT ![name] = NewEntry]
  /\ pc' = "set"
  /\ UNCHANGED <<procVars, tickFired, accounts, idx, fetchVars, scrapeVars,
                 histVars>>

\* A variant of GaugeSet that returns after the first element.
GaugeSetFirstOnly ==
  /\ alive /\ pc = "set"
  /\ gauge' = [gauge EXCEPT ![accounts[idx].Name] = SetEntry(GaugeValue(entry))]
  /\ idx' = idx + 1
  /\ pc' = "range"
  /\ nresp' = 0
  /\ ei' = 1
  /\ entry' = <<>>
  /\ log' = Append(log, Done("ok", nresp, sets + 1, entry))
  /\ sets' = 0
  /\ UNCHANGED <<procVars, tickFired, accounts, scrapeVars, running, atStart>>

\* .Set(float64(sum) / float64(len(...))), then the next element of
\* viewer.accounts, or the return to the range loop of fetchMetrics.
GaugeSet ==
  /\ alive /\ pc = "set"
  /\ gauge' = [gauge EXCEPT ![accounts[idx].Name] = SetEntry(GaugeValue(entry))]
  /\ IF ei = nresp
       THEN /\ idx' = idx + 1
            /\ pc' = "range"
            /\ nresp' = 0
            /\ ei' = 1
            /\ entry' = <<>>
            /\ log' = Append(log, Done("ok", nresp, sets + 1, entry))
            /\ sets' = 0
       ELSE /\ ei' = ei + 1
            /\ \E b \in BucketSeqs : entry' = b
            /\ pc' = "with"
            /\ sets' = sets + 1
            /\ UNCHANGED <<idx, nresp, log>>
  /\ UNCHANGED <<procVars, tickFired, accounts, scrapeVars, running, atStart>>

\* The range loop of fetchMetrics is over.
CycleDone == pc = "range" /\ idx > Len(accounts)

\* fetchMetrics returns, its locals with it (and the history of the cycle); the
\* post statement makes a new ticker and waits on its channel.
FetchMetricsReturn ==
  /\ alive /\ CycleDone
  /\ pc' = "idle"
  /\ tickFired' = FALSE
  /\ accounts' = <<>>
  /\ idx' = 1
  /\ running' = running - 1
  /\ log' = <<>>
  /\ atStart' = gauge
  /\ UNCHANGED <<procVars, fetchVars, gauge, scrapeVars, sets>>

\* 60 seconds after time.NewTicker the ticker sends on its channel.
Tick ==
  /\ alive /\ pc = "idle" /\ ~tickFired
  /\ tickFired' = TRUE
  /\ UNCHANGED <<procVars, pc, accounts, idx, fetchVars, gauge, scrapeVars,
                 histVars>>

\* <-ticker.C completes and the loop body runs again.
ReceiveTick ==
  /\ alive /\ pc = "idle" /\ tickFired
  /\ tickFired' = FALSE
  /\ CallFetchMetrics
  /\ UNCHANGED <<procVars, gauge, scrapeVars>>

\* ------------------------------------------------------------ the HTTP server
\* http.ListenAndServe binds the address and serves.
ListenOK ==
  /\ alive /\ http = "binding"
  /\ http' = "serving"
  /\ UNCHANGED <<cfIncludeAccounts, alive, accountsErr, loopVars, gauge,
                 scrapeVars, histVars>>

\* http.ListenAndServe returns an error: log.Fatal exits the process.
ListenError ==
  /\ alive /\ http = "binding"
  /\ alive' = FALSE
  /\ UNCHANGED <<cfIncludeAccounts, accountsErr, http, loopVars, gauge,
                 scrapeVars, histVars>>

\* A variant of ScrapeBegin that waits until no cycle is running.
ScrapeBeginBetweenCycles ==
  /\ alive /\ http = "serving" /\ scrapePc = "idle"
  /\ pc \in {"boot", "idle"}
  /\ scrapePc' = "gather"
  /\ scrapeTodo' = {n \in AccountNames : gauge[n].present}
  /\ scrapeOut' = [n \in AccountNames |-> NoEntry]
  /\ UNCHANGED <<procVars, loopVars, gauge, histVars>>

\* A request on the metrics path: promhttp.Handler() collects the children of
\* the GaugeVec that exist.
ScrapeBegin ==
  /\ alive /\ http = "serving" /\ scrapePc = "idle"
  /\ scrapePc' = "gather"
  /\ scrapeTodo' = {n \in AccountNames : gauge[n].present}
  /\ scrapeOut' = [n \in AccountNames |-> NoEntry]
  /\ UNCHANGED <<procVars, loopVars, gauge, histVars>>

\* The handler loads the value of one collected child and writes its line.
ScrapeWrite ==
  /\ alive /\ scrapePc = "gather"
  /\ \E n \in scrapeTodo :
       /\ scrapeOut' = [scrapeOut EXCEPT ![n] = gauge[n]]
       /\ scrapeTodo' = scrapeTodo \ {n}
  /\ UNCHANGED <<procVars, loopVars, gauge, scrapePc, histVars>>

\* The response is complete.
ScrapeEnd ==
  /\ alive /\ scrapePc = "gather" /\ scrapeTodo = {}
  /\ scrapePc' = "idle"
  /\ scrapeOut' = [n \in AccountNames |-> NoEntry]
  /\ UNCHANGED <<procVars, loopVars, gauge, scrapeTodo, histVars>>

\* ------------------------------------------------------------ specifications
\* The steps of the loop goroutine.
NextCycle ==
  \/ FirstCycle
  \/ FetchAccountsOK
  \/ FetchAccountsError
  \/ SkipAccount
  \/ FetchError
  \/ FetchOK
  \/ GaugeWith
  \/ GaugeSet
  \/ FetchMetricsReturn
  \/ Tick
  \/ ReceiveTick

\* The loop goroutine and the start of the server.
NextLoop ==
  \/ NextCycle
  \/ ListenOK
  \/ ListenError

\* The handler of the metrics path.
NextScrape ==
  \/ ScrapeBegin
  \/ ScrapeWrite
  \/ ScrapeEnd

Next == NextLoop \/ NextScrape

\* The whole program.
Spec == Init /\ [][Next]_vars

\* The program with no request on the metrics path.  A step of the handler
\* changes scrapeVars alone, so a property that reads none of them holds of
\* Spec exactly when it holds of SpecLoop.
SpecLoop == Init /\ [][NextLoop]_vars

\* ------------------------------------------------------------ claims
\* What the formulas read from the history of the cycle in progress.
Processed == 1..Len(log)
NameAt(i) == accounts[i].Name
\* Position i was passed to fetchStreamingAnalytics.
Fetched(i) == log[i].outcome \in {"ok", "error"}
\* The fetch at position i succeeded and set the gauge at least once.
Published(i) == log[i].outcome = "ok" /\ log[i].n >= 1
\* The identifier is one of the fields of the include_accounts setting.
InAllowList(id) == contains(accountsToHandle, id)
\* Between two accounts of the range loop of fetchMetrics, or after the last.
BetweenAccounts == pc = "range"

\* C1: with include_accounts empty, every account of the listing has been
\* passed to fetchStreamingAnalytics when the range loop of the cycle is over.
C1_EmptyAllowListFetchesAll ==
  (cfIncludeAccounts = <<>> /\ CycleDone) =>
    \A i \in 1..Len(accounts) : i \in Processed /\ Fetched(i)

\* C2 as claimed: with include_accounts not empty, an account of the listing
\* whose identifier is not in the allow-list is never fetched, and the gauge
\* entry under its display name is as it was when the cycle began.
C2_FilteredNameUntouched ==
  cfIncludeAccounts # <<>> =>
    \A i \in 1..Len(accounts) :
      ~InAllowList(accounts[i].ID) =>
        /\ (i \in Processed => log[i].outcome = "skip")
        /\ gauge[NameAt(i)] = atStart[NameAt(i)]

\* C2 as amended: with include_accounts not empty, an account of the listing
\* whose identifier is not in the allow-list is never fetched, and a gauge
\* entry differs from what it was when the cycle began only under the display
\* name of an account of the listing whose identifier is in the allow-list.
C2_OnlyAllowedNamesWritten ==
  cfIncludeAccounts # <<>> =>
    /\ \A i \in Processed :
         ~InAllowList(accounts[i].ID) => log[i].outcome = "skip"
    /\ \A n \in AccountNames :
         gauge[n] # atStart[n] =>
           \E j \in 1..Len(accounts) :
             NameAt(j) = n /\ InAllowList(accounts[j].ID)

\* Allow-list "a", listing a then b under different names: a is fetched and
\* published, b is skipped and its entry does not exist.
C2_Witness ==
  /\ cfIncludeAccounts = <<"a">>
  /\ CycleDone
  /\ Len(accounts) = 2
  /\ accounts[1].ID = <<"a">> /\ accounts[2].ID = <<"b">>
  /\ NameAt(1) # NameAt(2)
  /\ Published(1) /\ gauge[NameAt(1)].written
  /\ log[2].outcome = "skip" /\ ~gauge[NameAt(2)].present

\* sum(bucket counts), summed from the last bucket down.
Total(b) ==
  LET S[k \in 0..Len(b)] == IF k = 0 THEN 0 ELSE b[Len(b) + 1 - k] + S[k - 1]
  IN S[Len(b)]
\* The entry holds sum(b) / count(b), stored by a Set.
HoldsAverageOf(e, b) ==
  /\ e.present /\ e.written
  /\ e.val.den # 0
  /\ e.val.num * Len(b) = Total(b) * e.val.den

\* No fetch of the cycle has ended with an element without buckets.
NoEmptyBuckets == \A j \in Processed : Published(j) => log[j].last # <<>>

\* C3 as claimed: when the range loop of a cycle is over, in which no fetch
\* ended with an element without buckets, the gauge under the display name of
\* every account whose fetch succeeded holds sum / count of its buckets.
C3_GaugeIsAverageAfterCycle ==
  (CycleDone /\ NoEmptyBuckets) =>
    \A i \in Processed :
      (Published(i) /\ log[i].last # <<>>) =>
        HoldsAverageOf(gauge[NameAt(i)], log[i].last)

\* C3 as amended: between two accounts of a cycle and when its range loop is
\* over, the gauge under the display name of an account whose fetch ended with
\* a non-empty sequence of buckets holds sum / count of those buckets alone,
\* whatever it held before, unless an account processed later in the cycle
\* under the same display name has set it.
C3_GaugeIsAverageUntilOverwritten ==
  BetweenAccounts =>
    \A i \in Processed :
      ( /\ Published(i) /\ log[i].last # <<>>
        /\ ~\E j \in Processed : j > i /\ NameAt(j) = NameAt(i) /\ Published(j) )
      => HoldsAverageOf(gauge[NameAt(i)], log[i].last)

\* A cycle that finds 10 under the name and ends with buckets 10 and 20: 15.
C3_Witness ==
  /\ CycleDone
  /\ Len(log) = 1
  /\ Published(1) /\ log[1].last = <<10, 20>>
  /\ atStart[NameAt(1)].written /\ atStart[NameAt(1)].val = [num |-> 10, den |-> 1]
  /\ gauge[NameAt(1)].val = [num |-> 15, den |-> 1]

\* The account is one the setting is meant to include: any account when the
\* setting is empty, and one whose identifier is in the allow-list otherwise.
MeantIncluded(id) == cfIncludeAccounts = <<>> \/ InAllowList(id)

\* C4: a fetch that fails ends neither the cycle nor the process: the range
\* loop moves to the next position, every position before the loop's has been
\* dealt with, and every account meant to be included that follows a failed
\* one has been passed to fetchStreamingAnalytics.
C4_ErrorDoesNotAbortCycle ==
  /\ [](BetweenAccounts => Len(log) = idx - 1)
  /\ [](\A i, j \in Processed :
          (i < j /\ log[i].outcome = "error" /\ MeantIncluded(accounts[j].ID))
            => Fetched(j))
  /\ [][(Len(log') = Len(log) + 1 /\ log'[Len(log')].outcome = "error")
          => (alive' /\ pc' = "range" /\ idx' = idx + 1)]_vars

\* The first account fails, the second is fetched and published.
C4_Witness ==
  /\ CycleDone
  /\ Len(log) = 2
  /\ log[1].outcome = "error"
  /\ Published(2) /\ gauge[NameAt(2)].written

\* C5 as claimed: between two accounts of a cycle and when its range loop is
\* over, the gauge entry under the display name of an account whose fetch
\* failed is as it was when the cycle began (in a cycle where no fetch ended
\* with an element without buckets).
C5_FailedFetchLeavesEntry ==
  (BetweenAccounts /\ NoEmptyBuckets) =>
    \A i \in Processed :
      log[i].outcome = "error" => gauge[NameAt(i)] = atStart[NameAt(i)]

\* C5 as amended: the step of a failed fetch changes no gauge entry; the entry
\* under the account's display name is as it was when the cycle began unless
\* an account of the same display name has been fetched with success and set it
\* in that cycle; and no entry changes between the cycles.
C5_FailedFetchLeavesEntryUnlessShared ==
  /\ [](BetweenAccounts =>
          \A i \in Processed :
            ( /\ log[i].outcome = "error"
              /\ ~\E j \in Processed : NameAt(j) = NameAt(i) /\ Published(j) )
            => gauge[NameAt(i)] = atStart[NameAt(i)])
  /\ [][(Len(log') = Len(log) + 1 /\ log'[Len(log')].outcome = "error")
          => gauge' = gauge]_vars
  /\ [][(pc \in {"boot", "idle", "fetchAccounts"}) => (gauge' = gauge)]_vars

\* The fetch fails for an account whose entry holds a value of an earlier
\* cycle, and the entry still holds it when the range loop is over.
C5_Witness ==
  /\ CycleDone
  /\ \E i \in Processed :
       /\ log[i].outcome = "error"
       /\ atStart[NameAt(i)].written
       /\ gauge[NameAt(i)] = atStart[NameAt(i)]

\* C6: once api.Accounts has returned an error the process has exited: the
\* cycle has fetched no account and written no gauge, and no step of the loop
\* or of the server is possible any more.
C6_AccountsErrorIsFatal ==
  accountsErr =>
    /\ ~alive
    /\ pc = "fetchAccounts"
    /\ log = <<>>
    /\ gauge = atStart
    /\ ~ENABLED Next

\* The listing fails in a later cycle, with the server serving.
C6_Witness ==
  /\ accountsErr
  /\ http = "serving"
  /\ \E n \in AccountNames : gauge[n].written

\* C7: the division of line 128 is never reached with no bucket to divide by,
\* and no gauge holds the result of a division by zero.
C7_DivisorValidated ==
  /\ pc = "set" => Len(entry) # 0
  /\ \A n \in AccountNames : gauge[n].written => gauge[n].val.den # 0

\* C8: at most one call of fetchMetrics is in progress; the first needs no
\* tick; a tick is there to receive only after the previous call has returned;
\* and a call starts only at startup or on a tick received after that return.
C8_CyclesNeverOverlap ==
  /\ [](running <= 1)
  /\ []((alive /\ pc = "boot") => (~tickFired /\ ENABLED FirstCycle))
  /\ [](tickFired => (pc = "idle" /\ running = 0))
  /\ [][running' > running =>
          (running = 0 /\ (pc = "boot" \/ (pc = "idle" /\ tickFired)))]_vars

\* A later cycle is running: the gauge holds what an earlier one set.
C8_Witness ==
  /\ running = 1
  /\ pc = "range"
  /\ \E n \in AccountNames : atStart[n].written

\* C10: a fetch that succeeds makes one Set call per element of
\* viewer.accounts, in their order; with no element it changes no gauge entry;
\* with several the gauge holds the value of the last one when it returns.
C10_OneSetPerElement ==
  /\ [](\A i \in Processed : log[i].outcome = "ok" => log[i].sets = log[i].n)
  /\ [](pc \in {"with", "set"} => (sets = ei - 1 /\ ei <= nresp))
  /\ []((BetweenAccounts /\ Len(log) >= 1 /\ Published(Len(log))) =>
          gauge[NameAt(Len(log))] = SetEntry(GaugeValue(log[Len(log)].last)))
  /\ [][( /\ Len(log') = Len(log) + 1
          /\ log'[Len(log')].outcome = "ok"
          /\ log'[Len(log')].n = 0 ) => (gauge' = gauge)]_vars

\* One cycle: a response without elements for an account whose entry holds a
\* value, which it keeps, then a response with two elements for another.
C10_Witness ==
  /\ CycleDone
  /\ Len(log) = 2
  /\ NameAt(1) # NameAt(2)
  /\ log[1].outcome = "ok" /\ log[1].n = 0
  /\ atStart[NameAt(1)].written /\ gauge[NameAt(1)] = atStart[NameAt(1)]
  /\ log[2].outcome = "ok" /\ log[2].n = 2 /\ log[2].last = <<10, 20>>
  /\ gauge[NameAt(2)].val = [num |-> 15, den |-> 1]

\* A request can be taken, and one in progress can go on.
ScrapeCanStep ==
  /\ (http = "serving" /\ scrapePc = "idle") => ENABLED ScrapeBegin
  /\ scrapePc = "gather" => ENABLED (ScrapeWrite \/ ScrapeEnd)

\* C9 as claimed: while the process runs, whatever the loop goroutine is doing,
\* a request can be taken and go on, and the loop goroutine can take its
\* step whatever the handler is doing; a step of the handler changes nothing
\* the loop reads; and every line of a response carries a value a Set stored.
C9_ScrapeReadsSetValues ==
  /\ [](alive => (ScrapeCanStep /\ ENABLED NextCycle))
  /\ [][scrapeVars' # scrapeVars => UNCHANGED <<loopVars, gauge>>]_vars
  /\ [](\A n \in AccountNames : scrapeOut[n].present => scrapeOut[n].written)

\* C9 as amended: as claimed, except that a line of a response carries either
\* a value a Set stored or the 0 of an entry that With has created and no Set
\* has written yet; each line carries what the entry held when it was loaded.
C9_ScrapeReadsCompleteValues ==
  /\ [](alive => (ScrapeCanStep /\ ENABLED NextCycle))
  /\ [][scrapeVars' # scrapeVars => UNCHANGED <<loopVars, gauge>>]_vars
  /\ [](\A n \in AccountNames :
          scrapeOut[n].present => (scrapeOut[n].written \/ scrapeOut[n] = NewEntry))
  /\ [][\A n \in AccountNames :
          (scrapeOut'[n] # scrapeOut[n] /\ scrapePc' = "gather")
            => scrapeOut'[n] = gauge[n]]_vars

\* A request in progress between the With and the Set of the loop has written
\* the line of an entry that a Set of an earlier cycle stored.
C9_Witness ==
  /\ alive
  /\ scrapePc = "gather"
  /\ pc = "set"
  /\ \E n \in AccountNames :
       scrapeOut[n].written /\ atStart[n].written /\ scrapeTodo # {}

====
